---- MODULE Spec2Model ----
(***************************************************************************)
(* Model of the review pipeline of src/src/code_reviewer.rs:               *)
(*   review_changes = validate_git_repository ; get_unstaged_changes ;     *)
(*                    analyze_with_kimi ; print                            *)
(* The version-control tool and the remote service are the environment:    *)
(* every result they hand back is chosen with \E from a small set.         *)
(* Text is a sequence of byte values; 10 is "\n", 32 is " ", 45 is "-",    *)
(* 43 is "+", 97 is "a", 255 is a byte that never occurs in valid UTF-8.   *)
(***************************************************************************)
EXTENDS Integers, Sequences, FiniteSets, TLC

VARIABLES
    pc,         \* position in review_changes
    repo_path,  \* CodeReviewer.repo_path
    api_key,    \* CodeReviewer.api_key
    repo,       \* the repository on disk: index, working tree, history
    gitOps,     \* the version-control commands issued so far (set of kinds)
    validated,  \* exit of the status query: "unset", "spawn_fail", "nonzero", "ok"
    listed,     \* what the listing command gave: its exit, its stderr, and
                \* whether its stdout held a byte that is not valid text
    files,      \* get_unstaged_changes: the text of the listing
    lines,      \* get_unstaged_changes: lines of files the loop has still to visit
    fetched,    \* get_unstaged_changes: what each visited line's diff query gave
    diffs,      \* the Vec<GitDiff> being built, then bound in review_changes
    collected,  \* TRUE once get_unstaged_changes has returned Ok
    prompt,     \* the request text built in analyze_with_kimi
    httpCalls,  \* number of requests sent
    request,    \* the request handed to send()
    response,   \* what the remote call gave back
    outcome,    \* "running", "result", "empty", "error"
    err,        \* the error surfaced by review_changes
    printed     \* analysis texts printed between the rulers

vars == <<pc, repo_path, api_key, repo, gitOps, validated, listed, files, lines, fetched, diffs,
          collected, prompt, httpCalls, request, response, outcome, err, printed>>

----------------------------------------------------------------------------
(* Bounds of the model *)

MaxListLen == 3
MaxDiffLen == 2
MaxErrLen == 1
MaxChoices == 2

ListBytes == {10, 32, 45, 97, 255}
DiffBytes == {32, 43, 255}
ErrBytes == {97, 255}
RepoPaths == {"/work/repo", "/tmp/plain"}
ApiKeys == {"sk-one", "sk-two"}
\* the reviewers main() constructs: a directory and the credential of the environment
Constructions ==
    {[repo_path |-> "/work/repo", api_key |-> "sk-one"],
     [repo_path |-> "/tmp/plain", api_key |-> "sk-two"]}
Contents == {"LGTM", "BREAKING"}
Statuses == {200, 404}

SeqsUpTo(S, n) == UNION {[1..k -> S] : k \in 0..n}

----------------------------------------------------------------------------
(* Text helpers, computed as the standard library computes them *)

IsWs(b) == b \in {10, 32}

\* String::from_utf8 succeeds
Utf8Ok(bytes) == \A i \in 1..Len(bytes) : bytes[i] < 128

\* String::from_utf8_lossy: every invalid byte becomes U+FFFD
Utf8Lossy(bytes) == [i \in 1..Len(bytes) |-> IF bytes[i] < 128 THEN bytes[i] ELSE 65533]

RECURSIVE TrimStart(_)
TrimStart(s) == IF s # <<>> /\ IsWs(Head(s)) THEN TrimStart(Tail(s)) ELSE s

RECURSIVE TrimEnd(_)
TrimEnd(s) ==
    IF s # <<>> /\ IsWs(s[Len(s)]) THEN TrimEnd(SubSeq(s, 1, Len(s) - 1)) ELSE s

\* str::trim
Trim(s) == TrimEnd(TrimStart(s))

FirstNewline(s) ==
    IF \E i \in 1..Len(s) : s[i] = 10
    THEN CHOOSE i \in 1..Len(s) : s[i] = 10 /\ \A j \in 1..(i - 1) : s[j] # 10
    ELSE 0

\* str::lines: split at "\n", no final empty line
RECURSIVE Lines(_)
Lines(s) ==
    IF s = <<>> THEN <<>>
    ELSE LET k == FirstNewline(s) IN
         IF k = 0 THEN <<s>>
         ELSE <<SubSeq(s, 1, k - 1)>> \o Lines(SubSeq(s, k + 1, Len(s)))

----------------------------------------------------------------------------
(* Values *)

NoBody == [kind |-> "none", choices |-> <<>>]
\* the placeholder "Unknown error" used when the error body cannot be read
UnknownError == [kind |-> "placeholder", choices |-> <<>>]
NoResponse == [status |-> 0, body |-> NoBody]
NoPrompt == <<>>

Bodies ==
    {[kind |-> "unreadable", choices |-> <<>>], [kind |-> "garbage", choices |-> <<>>]}
    \cup {[kind |-> "json", choices |-> c] : c \in SeqsUpTo(Contents, MaxChoices)}

Responses == [status : Statuses, body : Bodies]

Error(kind, path, status, text, body) ==
    [kind |-> kind, path |-> path, status |-> status, text |-> text, body |-> body]

NoError == Error("none", "", 0, <<>>, NoBody)

Ok(value) == [ok |-> TRUE, value |-> value, error |-> NoError]
Fail(error) == [ok |-> FALSE, value |-> "", error |-> error]

NotListed == [exit |-> "unset", stderr |-> <<>>, badBytes |-> FALSE]

InitialRepo == [index |-> "orig", worktree |-> "orig", history |-> "orig"]

----------------------------------------------------------------------------
(* validate_git_repository *)

ValidateResultIgnoringExit(exit, path) ==
    IF exit = "spawn_fail"
    THEN Fail(Error("ToolInvocationFailed", "", 0, <<>>, NoBody))
    ELSE Ok("")

\* .output().context(..)? ; if !output.status.success() { bail!(.. repo_path) } ; Ok(())
ValidateResult(exit, path) ==
    IF exit = "spawn_fail"
    THEN Fail(Error("ToolInvocationFailed", "", 0, <<>>, NoBody))
    ELSE IF exit # "ok"
    THEN Fail(Error("NotARepository", path, 0, <<>>, NoBody))
    ELSE Ok("")

----------------------------------------------------------------------------
(* get_unstaged_changes *)

\* the result of the listing command, from its exit, stdout and stderr
ListResult(exit, stdout, stderr) ==
    IF exit = "spawn_fail"
    THEN Fail(Error("ToolInvocationFailed", "", 0, <<>>, NoBody))
    ELSE IF exit # "ok"
    THEN Fail(Error("DiffListFailed", "", 0, Utf8Lossy(stderr), NoBody))
    ELSE IF ~Utf8Ok(stdout)
    THEN Fail(Error("EncodingError", "", 0, <<>>, NoBody))
    ELSE Ok("")

\* if file_path.trim().is_empty() { continue; }
IsBlankLine(file_path) == Trim(file_path) = <<>>

KeepDiffNonEmpty(diff_content) == diff_content # <<>>

\* if !diff_content.trim().is_empty() { diffs.push(..) }
KeepDiff(diff_content) == Trim(diff_content) # <<>>

GitDiff(file_path, content) == [file_path |-> file_path, content |-> content]

PerFileResultExitFatal(exit, stdout) ==
    IF exit # "ok" THEN "fatal_spawn"
    ELSE IF ~Utf8Ok(stdout) THEN "fatal_utf8"
    ELSE IF KeepDiff(stdout) THEN "push"
    ELSE "skip"

\* what one iteration of the loop does with the diff query's exit and stdout:
\* .output().context(..)? ; if status.success() { from_utf8(..)? ; if !trim.is_empty { push } }
PerFileResult(exit, stdout) ==
    IF exit = "spawn_fail" THEN "fatal_spawn"
    ELSE IF exit # "ok" THEN "skip"
    ELSE IF ~Utf8Ok(stdout) THEN "fatal_utf8"
    ELSE IF KeepDiff(stdout) THEN "push"
    ELSE "skip"

\* the three command lines the code issues; arg is the bare argument after the flags
StatusCmd == [verb |-> "status", flags |-> <<>>, arg |-> <<>>]
ListCmd == [verb |-> "diff", flags |-> <<"--name-only">>, arg |-> <<>>]
\* .args(&["diff", file_path]): the listed name is passed as a bare argument
DiffCmd(file_path) == [verb |-> "diff", flags |-> <<>>, arg |-> file_path]

\* The tool reads an argument that starts with "-" as an option, not as a path.
IsOptionArg(arg) == arg # <<>> /\ Head(arg) = 45

\* The repositories the tool can leave behind after running `cmd` to a
\* successful exit.  status and diff only read; but an option argument to diff
\* can be --output=<file>, which writes <file> into the working tree.
ReposAfter(cmd, r) ==
    IF cmd.verb = "diff" /\ IsOptionArg(cmd.arg)
    THEN {r, [r EXCEPT !.worktree = "written"]}
    ELSE {r}

\* the kind of a command, as recorded in gitOps
CmdKind(cmd) ==
    IF cmd.verb = "diff" /\ cmd.flags = <<>> THEN "diff <path>"
    ELSE IF cmd.verb = "diff" THEN "diff --name-only"
    ELSE cmd.verb

\* the listing the tool prints names each modified path once
DistinctPaths(names) ==
    \A i, j \in 1..Len(names) :
        (i # j /\ ~IsBlankLine(names[i])) => names[i] # names[j]

----------------------------------------------------------------------------
(* analyze_with_kimi *)

Preamble == "You are a senior code reviewer. [..] Here are the diffs to analyze:\n\n"

RenderBlockTrimmed(diff) ==
    <<"### File: ", diff.file_path, "\n<fence>diff\n", Trim(diff.content), "\n<fence>\n\n">>

\* format!("### File: {}\n<fence>diff\n{}\n<fence>\n\n", file_path, content), where
\* <fence> stands for the three-backquote code fence
RenderBlock(diff) ==
    <<"### File: ", diff.file_path, "\n<fence>diff\n", diff.content, "\n<fence>\n\n">>

RECURSIVE RenderBlocks(_)
RenderBlocks(ds) ==
    IF ds = <<>> THEN <<>> ELSE RenderBlock(Head(ds)) \o RenderBlocks(Tail(ds))

\* the prompt: the preamble, then one block per diff, in order
RenderPrompt(ds) == <<Preamble>> \o RenderBlocks(ds)

SystemMessage == "You are an expert code reviewer specializing in [..] code modifications."

NoRequest ==
    [url |-> "", authorization |-> <<>>, model |-> "", messages |-> <<>>,
     temperature |-> ""]

\* lines 136-155: the JSON body and the headers of the POST
BuildRequest(key, text) ==
    [url |-> "https://api.moonshot.cn/v1/chat/completions",
     authorization |-> <<"Bearer ", key>>,
     model |-> "kimi-k2-0711-preview",
     messages |-> <<[role |-> "system", content |-> SystemMessage],
                    [role |-> "user", content |-> text]>>,
     temperature |-> "0.3"]

IsSuccessBelow500(status) == status < 500

\* StatusCode::is_success: 200..=299
IsSuccess(status) == status >= 200 /\ status <= 299

\* response.text().await.unwrap_or_else(|_| "Unknown error")
ErrorText(body) == IF body.kind = "unreadable" THEN UnknownError ELSE body

HandleResponseLastChoice(resp) ==
    IF ~IsSuccess(resp.status)
    THEN Fail(Error("ServiceError", "", resp.status, <<>>, ErrorText(resp.body)))
    ELSE IF resp.body.kind # "json"
    THEN Fail(Error("MalformedResponse", "", 0, <<>>, NoBody))
    ELSE IF resp.body.choices = <<>>
    THEN Fail(Error("EmptyResponse", "", 0, <<>>, NoBody))
    ELSE Ok(resp.body.choices[Len(resp.body.choices)])

\* lines 160-178: status check, parse, emptiness check, first choice
HandleResponse(resp) ==
    IF ~IsSuccess(resp.status)
    THEN Fail(Error("ServiceError", "", resp.status, <<>>, ErrorText(resp.body)))
    ELSE IF resp.body.kind # "json"
    THEN Fail(Error("MalformedResponse", "", 0, <<>>, NoBody))
    ELSE IF resp.body.choices = <<>>
    THEN Fail(Error("EmptyResponse", "", 0, <<>>, NoBody))
    ELSE Ok(resp.body.choices[1])

----------------------------------------------------------------------------
(* review_changes *)

NeverEmpty(ds) == FALSE

\* if diffs.is_empty() { return Ok(()) }
IsEmpty(ds) == ds = <<>>

RetryOnCallError == "Calling"

\* let analysis = self.analyze_with_kimi(&diffs).await?; an error returns at once
OnCallError == "Done"

RevalidateAfterPrompt == "Validating"

\* after the prompt is built the request is sent
AfterPrompt == "Calling"

Init ==
    /\ pc = "Validating"
    /\ repo_path \in RepoPaths
    /\ api_key \in ApiKeys
    /\ [repo_path |-> repo_path, api_key |-> api_key] \in Constructions
    /\ repo = InitialRepo
    /\ gitOps = {}
    /\ validated = "unset"
    /\ listed = NotListed
    /\ files = <<>>
    /\ lines = <<>>
    /\ fetched = <<>>
    /\ diffs = <<>>
    /\ collected = FALSE
    /\ prompt = NoPrompt
    /\ httpCalls = 0
    /\ request = NoRequest
    /\ response = NoResponse
    /\ outcome = "running"
    /\ err = NoError
    /\ printed = <<>>

\* review_changes returns Err(e)
Abort(e) ==
    /\ pc' = "Done"
    /\ outcome' = "error"
    /\ err' = e

\* self.validate_git_repository()?
Validate ==
    /\ pc = "Validating"
    /\ \E exit \in {"spawn_fail", "nonzero", "ok"} :
        LET r == ValidateResult(exit, repo_path) IN
        /\ validated' = exit
        /\ gitOps' = gitOps \cup {CmdKind(StatusCmd)}
        /\ repo' \in (IF exit = "ok" THEN ReposAfter(StatusCmd, repo) ELSE {repo})
        /\ IF r.ok
           THEN pc' = "Listing" /\ UNCHANGED <<outcome, err>>
           ELSE Abort(r.error)
    /\ UNCHANGED <<repo_path, api_key, listed, files, lines, fetched, diffs, collected, prompt,
                   httpCalls, request, response, printed>>

\* get_unstaged_changes, lines 64-78: the listing
ListFiles ==
    /\ pc = "Listing"
    /\ \E exit \in {"spawn_fail", "nonzero", "ok"} :
       \E stdout \in SeqsUpTo(ListBytes, MaxListLen) :
       \E stderr \in SeqsUpTo(ErrBytes, MaxErrLen) :
        LET r == ListResult(exit, stdout, stderr) IN
        /\ exit # "ok" => stdout = <<>>
        /\ exit # "nonzero" => stderr = <<>>
        /\ (exit = "ok" /\ Utf8Ok(stdout)) => DistinctPaths(Lines(stdout))
        /\ listed' = [exit |-> exit, stderr |-> stderr,
                       badBytes |-> \E k \in 1..Len(stdout) : stdout[k] > 127]
        /\ gitOps' = gitOps \cup {CmdKind(ListCmd)}
        /\ repo' \in (IF exit = "ok" THEN ReposAfter(ListCmd, repo) ELSE {repo})
        /\ IF r.ok
           THEN /\ pc' = "Diffing"
                /\ files' = stdout
                /\ lines' = Lines(stdout)
                /\ UNCHANGED <<outcome, err>>
           ELSE /\ Abort(r.error)
                /\ UNCHANGED <<files, lines>>
    /\ UNCHANGED <<repo_path, api_key, validated, fetched, diffs, collected, prompt,
                   httpCalls, request, response, printed>>

\* lines 80-83: a line that is blank after trimming is passed over
SkipBlankLine ==
    /\ pc = "Diffing"
    /\ lines # <<>>
    /\ IsBlankLine(Head(lines))
    /\ lines' = Tail(lines)
    /\ UNCHANGED <<pc, repo_path, api_key, repo, gitOps, validated, listed, files, fetched, diffs,
                   collected, prompt, httpCalls, request, response, outcome, err, printed>>

\* lines 85-100: the diff query for one listed file
DiffFile ==
    /\ pc = "Diffing"
    /\ lines # <<>>
    /\ ~IsBlankLine(Head(lines))
    /\ \E exit \in {"spawn_fail", "nonzero", "ok"} :
       \E stdout \in SeqsUpTo(DiffBytes, MaxDiffLen) :
        LET file_path == Head(lines)
            r == PerFileResult(exit, stdout)
        IN
        /\ exit # "ok" => stdout = <<>>
        /\ gitOps' = gitOps \cup {CmdKind(DiffCmd(file_path))}
        /\ repo' \in (IF exit = "ok" THEN ReposAfter(DiffCmd(file_path), repo) ELSE {repo})
        \* with --output the diff goes to the file and stdout stays empty
        /\ repo' # repo => stdout = <<>>
        /\ fetched' = Append(fetched, [file_path |-> file_path, exit |-> exit, stdout |-> stdout])
        /\ IF r \in {"fatal_spawn", "fatal_utf8"}
           THEN /\ Abort(IF r = "fatal_spawn"
                         THEN Error("ToolInvocationFailed", "", 0, file_path, NoBody)
                         ELSE Error("EncodingError", "", 0, <<>>, NoBody))
                /\ diffs' = <<>>
                /\ UNCHANGED lines
           ELSE /\ lines' = Tail(lines)
                /\ diffs' = (IF r = "push" THEN Append(diffs, GitDiff(file_path, stdout))
                                           ELSE diffs)
                /\ UNCHANGED <<pc, outcome, err>>
    /\ UNCHANGED <<repo_path, api_key, validated, listed, files, collected, prompt, httpCalls, request,
                   response, printed>>

\* line 103 Ok(diffs), then lines 186-191 of review_changes
CollectReturn ==
    /\ pc = "Diffing"
    /\ lines = <<>>
    /\ collected' = TRUE
    /\ files' = <<>>
    /\ fetched' = <<>>
    /\ IF IsEmpty(diffs)
       THEN pc' = "Done" /\ outcome' = "empty"
       ELSE pc' = "BuildingPrompt" /\ UNCHANGED outcome
    /\ UNCHANGED <<repo_path, api_key, repo, gitOps, validated, listed, lines, diffs, prompt,
                   httpCalls, request, response, err, printed>>

\* analyze_with_kimi, lines 109-149: the prompt and the request body
BuildPrompt ==
    /\ pc = "BuildingPrompt"
    /\ prompt' = RenderPrompt(diffs)
    /\ pc' = AfterPrompt
    /\ UNCHANGED <<repo_path, api_key, repo, gitOps, validated, listed, files, lines, fetched, diffs,
                   collected, httpCalls, request, response, outcome, err, printed>>

\* lines 151-158: send() fails
CallTransportFails ==
    /\ pc = "Calling"
    /\ httpCalls' = httpCalls + 1
    /\ request' = BuildRequest(api_key, prompt)
    /\ pc' = OnCallError
    /\ outcome' = "error"
    /\ err' = Error("TransportError", "", 0, <<>>, NoBody)
    /\ UNCHANGED <<repo_path, api_key, repo, gitOps, validated, listed, files, lines, fetched, diffs,
                   collected, prompt, response, printed>>

\* lines 151-178 and 199-206: a response arrives and is handled
CallResponds ==
    /\ pc = "Calling"
    /\ \E resp \in Responses :
        LET r == HandleResponse(resp) IN
        /\ httpCalls' = httpCalls + 1
        /\ request' = BuildRequest(api_key, prompt)
        /\ response' = resp
        /\ IF r.ok
           THEN /\ pc' = "Done"
                /\ outcome' = "result"
                /\ printed' = Append(printed, r.value)
                /\ UNCHANGED err
           ELSE /\ pc' = OnCallError
                /\ outcome' = "error"
                /\ err' = r.error
                /\ UNCHANGED printed
    /\ UNCHANGED <<repo_path, api_key, repo, gitOps, validated, listed, files, lines, fetched, diffs,
                   collected, prompt>>

Next ==
    \/ Validate
    \/ ListFiles
    \/ SkipBlankLine
    \/ DiffFile
    \/ CollectReturn
    \/ BuildPrompt
    \/ CallTransportFails
    \/ CallResponds

Spec == Init /\ [][Next]_vars

\* every external call returns, so an enabled step is eventually taken
FairSpec == Spec /\ WF_vars(Next)

----------------------------------------------------------------------------
(* Properties *)

ReadOnlyKinds == {"status", "diff --name-only", "diff <path>"}

\* a text with at least one character that is not white space
NonBlank(t) == \E i \in 1..Len(t) : t[i] \notin {10, 32}

\* the files the listing names: its lines that name something
ListedFiles(text) == SelectSeq(Lines(text), NonBlank)

\* a diff query that gave a diff text worth recording
GaveDiffText(f) == f.exit = "ok" /\ NonBlank(f.stdout)

AsGitDiff(f) == [file_path |-> f.file_path, content |-> f.stdout]

MapAsGitDiff(fs) == [i \in 1..Len(fs) |-> AsGitDiff(fs[i])]

\* C1: when the status query does not report a working tree (it exits
\* unsuccessfully), review_changes fails with NotARepository carrying the
\* path, and nothing after validation has run: no listing, no per-file diff,
\* no prompt, no remote call, nothing printed.
C1_NotARepositoryStopsPipeline ==
    validated = "nonzero" =>
        /\ pc = "Done"
        /\ outcome = "error"
        /\ err.kind = "NotARepository"
        /\ err.path = repo_path
        /\ gitOps = {"status"}
        /\ listed = NotListed
        /\ fetched = <<>>
        /\ diffs = <<>>
        /\ ~collected
        /\ prompt = NoPrompt
        /\ httpCalls = 0
        /\ response = NoResponse
        /\ printed = <<>>

C1_Witness ==
    /\ validated = "nonzero"
    /\ pc = "Done"
    /\ err.kind = "NotARepository"
    /\ err.path = "/tmp/plain"

\* C2: a request is built and a network call is made if and only if the
\* collector returned at least one change; an empty collection ends the
\* pipeline in the successful "nothing to review" state, without an error
\* and with zero calls.
C2_RequestIffChanges ==
    /\ (prompt # NoPrompt \/ httpCalls > 0) => (collected /\ diffs # <<>>)
    /\ (collected /\ diffs = <<>>) =>
        /\ pc = "Done"
        /\ outcome = "empty"
        /\ err = NoError
        /\ prompt = NoPrompt
        /\ httpCalls = 0
        /\ printed = <<>>
    /\ (pc = "Done" /\ collected /\ diffs # <<>>) =>
        /\ prompt # NoPrompt
        /\ httpCalls = 1
        /\ outcome # "empty"

C2_Witness ==
    /\ pc = "Done"
    /\ outcome = "empty"
    /\ collected
    /\ listed.exit = "ok"
    /\ httpCalls = 0

\* C3: when the loop of get_unstaged_changes has visited the whole listing,
\* the result holds exactly the listed files whose diff text is neither empty
\* nor all white space, each once, with its path and its literal diff text,
\* in listing order; and no recorded entry ever has an empty path or an
\* empty diff text.
C3_CollectsExactlyNonBlankDiffs ==
    /\ \A i \in 1..Len(diffs) :
        /\ NonBlank(diffs[i].file_path)
        /\ NonBlank(diffs[i].content)
        /\ \A j \in 1..Len(diffs) : i # j => diffs[i].file_path # diffs[j].file_path
    /\ (pc = "Diffing" /\ lines = <<>>) =>
        /\ [i \in 1..Len(fetched) |-> fetched[i].file_path] = ListedFiles(files)
        /\ diffs = MapAsGitDiff(SelectSeq(fetched, GaveDiffText))

C3_Witness ==
    /\ pc = "Diffing"
    /\ lines = <<>>
    /\ Len(fetched) = 2
    /\ Len(diffs) = 1
    /\ fetched[1].exit = "ok"
    /\ fetched[1].stdout = <<32>>
    /\ diffs[1].file_path = fetched[2].file_path
    /\ diffs[1].content = <<32, 43>>

\* C4, as stated: a failed listing is fatal with DiffListFailed and the tool's
\* error text, and a failure to obtain one file's diff, whether the tool cannot
\* be started for that file or it exits unsuccessfully, never ends the
\* collection.
C4_PerFileFailureNeverFatal ==
    /\ listed.exit = "nonzero" =>
        (pc = "Done" /\ outcome = "error" /\ err.kind = "DiffListFailed")
    /\ \A i \in 1..Len(fetched) :
        fetched[i].exit # "ok" => (i < Len(fetched) \/ outcome # "error")

\* the error text of the listing, with U+FFFD in place of each invalid byte
CarriesToolText(text, stderr) ==
    /\ Len(text) = Len(stderr)
    /\ \A i \in 1..Len(stderr) :
        text[i] = (IF stderr[i] \in 0..127 THEN stderr[i] ELSE 65533)

\* C4, amended: a failed listing is fatal with DiffListFailed and the tool's
\* error text; a per-file diff query that exits unsuccessfully is never fatal:
\* the file is skipped and the loop goes on with the remaining files; a
\* per-file diff query that cannot be started is fatal (ToolInvocationFailed).
C4_OnlyUnsuccessfulExitIsSkipped ==
    /\ listed.exit = "nonzero" =>
        /\ pc = "Done"
        /\ outcome = "error"
        /\ err.kind = "DiffListFailed"
        /\ CarriesToolText(err.text, listed.stderr)
        /\ fetched = <<>>
    /\ \A i \in 1..Len(fetched) :
        /\ fetched[i].exit = "nonzero" =>
            /\ i < Len(fetched) \/ (pc = "Diffing" /\ outcome = "running")
            /\ \A j \in 1..Len(diffs) : diffs[j].file_path # fetched[i].file_path
        /\ fetched[i].exit = "spawn_fail" =>
            /\ i = Len(fetched)
            /\ pc = "Done"
            /\ outcome = "error"
            /\ err.kind = "ToolInvocationFailed"
            /\ err.text = fetched[i].file_path

C4_Witness ==
    /\ pc = "Diffing"
    /\ lines = <<>>
    /\ Len(fetched) = 2
    /\ fetched[1].exit = "nonzero"
    /\ Len(diffs) = 1
    /\ diffs[1].file_path = fetched[2].file_path

\* C5, as stated: bytes that are not valid text are fatal (EncodingError) in
\* the listing step, but in a per-file diff step they only make that file be
\* skipped, and the collection goes on.
C5_BadBytesPerFileOnlySkip ==
    /\ (listed.exit = "ok" /\ listed.badBytes) =>
        (pc = "Done" /\ outcome = "error" /\ err.kind = "EncodingError" /\ fetched = <<>>)
    /\ \A i \in 1..Len(fetched) :
        (fetched[i].exit = "ok" /\ \E k \in 1..Len(fetched[i].stdout) : fetched[i].stdout[k] > 127)
            => (outcome # "error" /\ pc = "Diffing")

\* C6: a response with a non-success status ends the pipeline with
\* ServiceError carrying that status and the body (or the placeholder when the
\* body cannot be read), and no result text, whatever the body holds.
C6_NonSuccessIsServiceError ==
    (response # NoResponse /\ response.status \notin 200..299) =>
        /\ pc = "Done"
        /\ outcome = "error"
        /\ err.kind = "ServiceError"
        /\ err.status = response.status
        /\ err.body = (IF response.body.kind = "unreadable" THEN UnknownError
                                                             ELSE response.body)
        /\ printed = <<>>

C6_Witness ==
    /\ pc = "Done"
    /\ response.status = 404
    /\ response.body.kind = "json"
    /\ response.body.choices = <<"LGTM", "BREAKING">>
    /\ err.kind = "ServiceError"

\* C7: for a success response whose body parses, the result is the content of
\* the first completion when there is one (later completions are ignored), and
\* EmptyResponse when there is none.
C7_FirstCompletionOrEmpty ==
    (response.status \in 200..299 /\ response.body.kind = "json") =>
        /\ pc = "Done"
        /\ IF response.body.choices = <<>>
           THEN outcome = "error" /\ err.kind = "EmptyResponse" /\ printed = <<>>
           ELSE outcome = "result" /\ err = NoError
                /\ printed = <<Head(response.body.choices)>>

C7_Witness ==
    /\ pc = "Done"
    /\ outcome = "result"
    /\ response.status = 200
    /\ response.body.choices = <<"LGTM", "BREAKING">>
    /\ printed = <<"LGTM">>

CallErrors == {"TransportError", "ServiceError", "MalformedResponse", "EmptyResponse"}

\* C8: the remote call is made at most once and never retried: once a request
\* has been sent the invocation is over, and when the call failed it is over
\* in the failed state, with one of the call's errors and no result printed.
C8_AtMostOneCallNoRetry ==
    /\ httpCalls <= 1
    /\ httpCalls = 1 =>
        /\ pc = "Done"
        /\ outcome \in {"result", "error"}
        /\ outcome = "error" => (err.kind \in CallErrors /\ printed = <<>>)
        /\ outcome = "result" => (err = NoError /\ Len(printed) = 1)
    /\ err.kind \in CallErrors => httpCalls = 1

C8_Witness ==
    /\ pc = "Done"
    /\ httpCalls = 1
    /\ outcome = "error"
    /\ err.kind = "TransportError"
    /\ printed = <<>>

\* the stage of the pipeline a position belongs to
Stage(p) == IF p \in {"Listing", "Diffing"} THEN "Collecting" ELSE p

\* the edges of the pipeline; Collecting stays Collecting while its loop runs
StageEdges ==
    {<<"Validating", "Collecting">>, <<"Validating", "Done">>,
     <<"Collecting", "Collecting">>, <<"Collecting", "BuildingPrompt">>,
     <<"Collecting", "Done">>, <<"BuildingPrompt", "Calling">>,
     <<"Calling", "Done">>}

\* a step follows an edge, does not list twice, and leaves Done alone
StageStep ==
    /\ (<<Stage(pc), Stage(pc')>>) \in StageEdges
    /\ pc = "Listing" => pc' # "Listing"
    /\ pc = "Done" => UNCHANGED vars

Terminal == pc = "Done" /\ outcome \in {"result", "empty", "error"}

\* C9: the stages follow one another only along Validating, Collecting,
\* BuildingPrompt, Calling, and no stage is entered again; every invocation
\* ends, in exactly one of the states successful-with-result, successful-empty
\* and failed-with-error, which it then keeps; the result text is printed only
\* in successful-with-result.
C9_LinearPipelineTerminates ==
    /\ [][StageStep]_vars
    /\ [](outcome = "running" <=> pc # "Done")
    /\ [](pc = "Done" => Terminal)
    /\ [](printed # <<>> => (pc = "Done" /\ outcome = "result"))
    /\ [](outcome = "result" => printed # <<>>)
    /\ <>[]Terminal

C9_Witness ==
    /\ pc = "Done"
    /\ outcome = "result"
    /\ printed = <<"BREAKING">>
    /\ Len(diffs) = 2

\* C10: whatever the outcome, only the status query, the listing and the
\* per-file diff query are issued, and the repository's index, working tree
\* and history are as they were.
C10_RepositoryUnchanged ==
    /\ gitOps \subseteq ReadOnlyKinds
    /\ repo = InitialRepo

\* the pieces of the i-th block of a request text
BlockOf(text, i) == SubSeq(text, 5 * i - 3, 5 * i + 1)

\* C11: the request text is a function of the change sequence alone: it is
\* the fixed preamble followed by exactly one block per change, in the order
\* of the changes, each block naming the change's file path and holding its
\* diff text unmodified; nothing of the credential, the repository path or
\* any other state enters it, and it is this text that is sent as the user
\* message while the credential goes only into the Authorization header.
C11_PromptIsPreambleThenBlocks ==
    /\ prompt # NoPrompt =>
        /\ Len(prompt) = 1 + 5 * Len(diffs)
        /\ prompt[1] = Preamble
        /\ \A i \in 1..Len(diffs) :
            /\ BlockOf(prompt, i)[1] = "### File: "
            /\ BlockOf(prompt, i)[2] = diffs[i].file_path
            /\ BlockOf(prompt, i)[3] = "\n<fence>diff\n"
            /\ BlockOf(prompt, i)[4] = diffs[i].content
            /\ BlockOf(prompt, i)[5] = "\n<fence>\n\n"
    /\ request # NoRequest =>
        /\ prompt # NoPrompt
        /\ Len(request.messages) = 2
        /\ request.messages[2].role = "user"
        /\ request.messages[2].content = prompt
        /\ request.messages[1].content = SystemMessage
        /\ request.authorization = <<"Bearer ", api_key>>

C11_Witness ==
    /\ request # NoRequest
    /\ api_key = "sk-two"
    /\ Len(diffs) = 2
    /\ diffs[1].content = <<32, 43>>
    /\ diffs[2].content = <<43>>
    /\ diffs[1].file_path # diffs[2].file_path
    /\ Len(prompt) = 11

====
